---- MODULE Spec2Model ----
(***************************************************************************)
(* Model of the zoneinfo crate (src/src/lib.rs): the tzfile(5) decoder     *)
(* (TzHead, read_zone_info, ZoneInfo::new) and the query API of ZoneInfo   *)
(* (get_transitions, get_actual_zoneinfo, get_next_transition_time, ...).  *)
(*                                                                         *)
(* A byte is a number in 0..255 and the file is a sequence of bytes.      *)
(* An i64 is kept as its 8 big-endian two's-complement bytes, because the  *)
(* integers of the model checker are 32 bits wide: i64::MIN is             *)
(* <<128,0,0,0,0,0,0,0>>, and i64 order is the order of these bytes with   *)
(* the sign bit of the first one flipped.  u32 and i32 values are numbers. *)
(***************************************************************************)
EXTENDS Integers, Sequences, FiniteSets, TLC

VARIABLES
    buffer,               \* ZoneInfo::new: the bytes read from the file
    ptr64,                \* cfg!(target_pointer_width = "64") of the build
    pc,                   \* where ZoneInfo::new and its read_zone_info stand
    consumer,             \* bytes per timestamp of the running read_zone_info
    cursor,               \* position of the cursor over buffer
    body,                 \* the locals of the running read_zone_info
    b32,                  \* ZoneInfo::new: the body read with 4-byte timestamps
    outcome,              \* what ZoneInfo::new ended with: Ok, Err or a panic
    zone_info,            \* ZoneInfo.zone_info (ZoneInfoInner) once loaded
    time_zone_specifier,  \* ZoneInfo.time_zone_specifier once loaded
    call,                 \* the last query made on the ZoneInfo and its result
    before                \* the query made before that one and its result

vars == <<buffer, ptr64, pc, consumer, cursor, body, b32, outcome, zone_info,
          time_zone_specifier, call, before>>

----------------------------------------------------------------------------
(* Bounds of the model.                                                    *)

\* most transitions in a body of an enumerated file
MaxTimeCnt == 2
\* most local time types in a body of an enumerated file
MaxTypeCnt == 2

----------------------------------------------------------------------------
(* Results: Ok(val) with the cursor position after it, Err, or a panic.    *)

Ok(v, p) == [ok |-> TRUE, val |-> v, pos |-> p]
Err == [ok |-> FALSE, err |-> "UnexpectedEOF"]
Panic == [ok |-> FALSE, err |-> "panic"]

Min(a, b) == IF a < b THEN a ELSE b

Zeros(n) == [i \in 1..n |-> 0]

----------------------------------------------------------------------------
(* std::io::Cursor<&[u8]> and byteorder::ReadBytesExt                      *)

\* bytes left at a position; a position past the end leaves none
Remaining(buf, pos) == IF pos >= Len(buf) THEN 0 ELSE Len(buf) - pos

\* Read::read into an n-byte zeroed array: copies what is left, up to n bytes,
\* and never fails; the rest of the array keeps its zeros
Cursor_read(buf, pos, n) ==
    LET k == Min(n, Remaining(buf, pos))
    IN  [data |-> SubSeq(buf, pos + 1, pos + k) \o Zeros(n - k), pos |-> pos + k]

\* byteorder's read of exactly n bytes: UnexpectedEOF when fewer are left
read_full(buf, pos, n) ==
    IF Remaining(buf, pos) >= n
    THEN Ok(SubSeq(buf, pos + 1, pos + n), pos + n)
    ELSE Err

U32(b) == b[1] * 16777216 + b[2] * 65536 + b[3] * 256 + b[4]

I32(b) == (IF b[1] >= 128 THEN b[1] - 256 ELSE b[1]) * 16777216
          + b[2] * 65536 + b[3] * 256 + b[4]

read_u8(buf, pos) ==
    LET r == read_full(buf, pos, 1) IN IF r.ok THEN Ok(r.val[1], r.pos) ELSE r

read_u32(buf, pos) ==
    LET r == read_full(buf, pos, 4) IN IF r.ok THEN Ok(U32(r.val), r.pos) ELSE r

read_i32(buf, pos) ==
    LET r == read_full(buf, pos, 4) IN IF r.ok THEN Ok(I32(r.val), r.pos) ELSE r

\* read_i64::<BigEndian>: the 8 bytes are the value
read_i64(buf, pos) == read_full(buf, pos, 8)

\* `v as i64` of an i32: sign extension
I64FromI32(v) ==
    (IF v < 0 THEN <<255, 255, 255, 255>> ELSE <<0, 0, 0, 0>>)
    \o [k \in 1..4 |-> (v \div (256 ^ (4 - k))) % 256]

\* the 4 big-endian bytes of a u32 or an i32, as a file holds them
BE4(v) == [k \in 1..4 |-> (v \div (256 ^ (4 - k))) % 256]

consume_32bit_timestamps(buf, pos) ==
    LET r == read_i32(buf, pos) IN IF r.ok THEN Ok(I64FromI32(r.val), r.pos) ELSE r

consume_64bit_timestamps(buf, pos) == read_i64(buf, pos)

\* the time_consumer of a TzHead: 4 or 8 bytes wide
time_consumer(width, buf, pos) ==
    IF width = 4 THEN consume_32bit_timestamps(buf, pos)
    ELSE consume_64bit_timestamps(buf, pos)

----------------------------------------------------------------------------
(* time::Timespec {sec: i64, nsec: i32} with its derived ordering          *)

Timespec_new(sec, nsec) == [sec |-> sec, nsec |-> nsec]

I64_MIN == <<128, 0, 0, 0, 0, 0, 0, 0>>

I64_lt(a, b) ==
    LET key(x) == [i \in 1..8 |-> IF i = 1 THEN (x[1] + 128) % 256 ELSE x[i]]
    IN  \E i \in 1..8 : /\ key(a)[i] < key(b)[i]
                        /\ \A j \in 1..(i - 1) : a[j] = b[j]

Timespec_lt(a, b) ==
    \/ I64_lt(a.sec, b.sec)
    \/ a.sec = b.sec /\ a.nsec < b.nsec

----------------------------------------------------------------------------
(* std::str::from_utf8: whether a byte string is well-formed UTF-8         *)

RECURSIVE Utf8From(_, _)
Utf8From(s, i) ==
    LET n == Len(s)
        cont(k) == k <= n /\ s[k] >= 128 /\ s[k] <= 191
        in(k, lo, hi) == k <= n /\ s[k] >= lo /\ s[k] <= hi
    IN  IF i > n THEN TRUE
        ELSE IF s[i] < 128 THEN Utf8From(s, i + 1)
        ELSE IF s[i] >= 194 /\ s[i] <= 223 THEN cont(i + 1) /\ Utf8From(s, i + 2)
        ELSE IF s[i] = 224 THEN in(i + 1, 160, 191) /\ cont(i + 2) /\ Utf8From(s, i + 3)
        ELSE IF s[i] = 237 THEN in(i + 1, 128, 159) /\ cont(i + 2) /\ Utf8From(s, i + 3)
        ELSE IF s[i] >= 225 /\ s[i] <= 239
             THEN cont(i + 1) /\ cont(i + 2) /\ Utf8From(s, i + 3)
        ELSE IF s[i] = 240
             THEN in(i + 1, 144, 191) /\ cont(i + 2) /\ cont(i + 3) /\ Utf8From(s, i + 4)
        ELSE IF s[i] >= 241 /\ s[i] <= 243
             THEN cont(i + 1) /\ cont(i + 2) /\ cont(i + 3) /\ Utf8From(s, i + 4)
        ELSE IF s[i] = 244
             THEN in(i + 1, 128, 143) /\ cont(i + 2) /\ cont(i + 3) /\ Utf8From(s, i + 4)
        ELSE FALSE

from_utf8_ok(s) == Utf8From(s, 1)

----------------------------------------------------------------------------
(* TzHead                                                                  *)

\* the six counts of the header, read one after the other
RECURSIVE read_counts(_, _, _)
read_counts(buf, pos, n) ==
    IF n = 0 THEN Ok(<<>>, pos)
    ELSE LET r == read_u32(buf, pos)
         IN  IF ~r.ok THEN r
             ELSE LET rest == read_counts(buf, r.pos, n - 1)
                  IN  IF ~rest.ok THEN rest
                      ELSE Ok(<<r.val>> \o rest.val, rest.pos)

\* TzHead::new: magic, version, 15 reserved bytes skipped, six counts; the
\* magic is only decoded as text, after every read has succeeded
TzHead_new(buf, pos) ==
    LET magic == Cursor_read(buf, pos, 4)
        version == read_u8(buf, magic.pos)
    IN  IF ~version.ok THEN version
        ELSE LET cnt == read_counts(buf, version.pos + 15, 6)
             IN  IF ~cnt.ok THEN cnt
                 ELSE IF ~from_utf8_ok(magic.data) THEN Panic
                 ELSE Ok([tzh_magic |-> magic.data,
                          tzh_version |-> version.val,
                          tzh_ttigmtcnt |-> cnt.val[1],
                          tzh_ttisstdcnt |-> cnt.val[2],
                          tzh_leapcnt |-> cnt.val[3],
                          tzh_timecnt |-> cnt.val[4],
                          tzh_typecnt |-> cnt.val[5],
                          tzh_charcnt |-> cnt.val[6]], cnt.pos)

RECURSIVE read_times(_, _, _, _)
read_times(width, buf, pos, n) ==
    IF n = 0 THEN Ok(<<>>, pos)
    ELSE LET r == time_consumer(width, buf, pos)
         IN  IF ~r.ok THEN r
             ELSE LET rest == read_times(width, buf, r.pos, n - 1)
                  IN  IF ~rest.ok THEN rest
                      ELSE Ok(<<Timespec_new(r.val, 0)>> \o rest.val, rest.pos)

decode_transition_times(h, width, buf, pos) ==
    read_times(width, buf, pos, h.tzh_timecnt)

RECURSIVE read_bytes(_, _, _)
read_bytes(buf, pos, n) ==
    IF n = 0 THEN Ok(<<>>, pos)
    ELSE LET r == read_u8(buf, pos)
         IN  IF ~r.ok THEN r
             ELSE LET rest == read_bytes(buf, r.pos, n - 1)
                  IN  IF ~rest.ok THEN rest
                      ELSE Ok(<<r.val>> \o rest.val, rest.pos)

decode_transition_types(h, buf, pos) == read_bytes(buf, pos, h.tzh_timecnt)

\* the (ut_offset, isdst, abbr_index) records, 6 bytes each
RECURSIVE read_raw_local_time_data(_, _, _)
read_raw_local_time_data(buf, pos, n) ==
    IF n = 0 THEN Ok(<<>>, pos)
    ELSE LET ut_offset == read_i32(buf, pos)
         IN  IF ~ut_offset.ok THEN ut_offset
             ELSE LET isdst == read_u8(buf, ut_offset.pos)
                  IN  IF ~isdst.ok THEN isdst
                      ELSE LET abbr_index == read_u8(buf, isdst.pos)
                           IN  IF ~abbr_index.ok THEN abbr_index
                               ELSE LET rest == read_raw_local_time_data(
                                                    buf, abbr_index.pos, n - 1)
                                    IN  IF ~rest.ok THEN rest
                                        ELSE Ok(<<[ut_offset |-> ut_offset.val,
                                                   isdst |-> isdst.val,
                                                   abbr_index |-> abbr_index.val]>>
                                                \o rest.val, rest.pos)

\* charbuf.skip(abbr_index).take_while(|c| c > 0)
RECURSIVE take_while_nonzero(_, _)
take_while_nonzero(charbuf, i) ==
    IF i > Len(charbuf) \/ charbuf[i] = 0 THEN <<>>
    ELSE <<charbuf[i]>> \o take_while_nonzero(charbuf, i + 1)

abbr_at(charbuf, abbr_index) == take_while_nonzero(charbuf, abbr_index + 1)

\* decode_local_time_data: the records, then the pool of tzh_charcnt bytes
\* taken with Read::read, then one abbreviation per record, decoded as text
decode_local_time_data(h, buf, pos) ==
    LET raw == read_raw_local_time_data(buf, pos, h.tzh_typecnt)
    IN  IF ~raw.ok THEN raw
        ELSE LET pool == Cursor_read(buf, raw.pos, h.tzh_charcnt)
                 charbuf == pool.data
             IN  IF \E i \in 1..Len(raw.val) :
                        ~from_utf8_ok(abbr_at(charbuf, raw.val[i].abbr_index))
                 THEN Panic
                 ELSE Ok([i \in 1..Len(raw.val) |->
                            [ut_offset |-> raw.val[i].ut_offset,
                             isdst |-> raw.val[i].isdst # 0,
                             abbreviation |-> abbr_at(charbuf, raw.val[i].abbr_index)]],
                         pool.pos)

RECURSIVE read_leaps(_, _, _, _)
read_leaps(width, buf, pos, n) ==
    IF n = 0 THEN Ok(<<>>, pos)
    ELSE LET transition_time == time_consumer(width, buf, pos)
         IN  IF ~transition_time.ok THEN transition_time
             ELSE LET seconds == read_i32(buf, transition_time.pos)
                  IN  IF ~seconds.ok THEN seconds
                      ELSE LET rest == read_leaps(width, buf, seconds.pos, n - 1)
                           IN  IF ~rest.ok THEN rest
                               ELSE Ok(<<<<Timespec_new(transition_time.val, 0),
                                           seconds.val>>>> \o rest.val, rest.pos)

decode_leap_second_corrections(h, width, buf, pos) ==
    read_leaps(width, buf, pos, h.tzh_leapcnt)

decode_transition_flags1(h, buf, pos) ==
    LET r == read_bytes(buf, pos, h.tzh_ttisstdcnt)
    IN  IF ~r.ok THEN r
        ELSE Ok([i \in 1..Len(r.val) |->
                    IF r.val[i] = 0 THEN "WallClock" ELSE "Standard"], r.pos)

decode_transition_flags2(h, buf, pos) ==
    LET r == read_bytes(buf, pos, h.tzh_ttigmtcnt)
    IN  IF ~r.ok THEN r
        ELSE Ok([i \in 1..Len(r.val) |->
                    IF r.val[i] = 0 THEN "Local" ELSE "Universal"], r.pos)

----------------------------------------------------------------------------------------------------------------------------------------
(* read_zone_info and ZoneInfo::new                                        *)

\* with_dummy_transition with the dummy transition at the epoch
with_dummy_transition_at_epoch(times, types, local_times) ==
    IF Len(times) = 0 /\ Len(local_times) = 1
    THEN [times |-> Append(times, Timespec_new(I64FromI32(0), 0)),
          types |-> Append(types, 0)]
    ELSE [times |-> times, types |-> types]

\* with_dummy_transition whenever there is no transition
with_dummy_transition_always(times, types, local_times) ==
    IF Len(times) = 0
    THEN [times |-> Append(times, Timespec_new(I64_MIN, 0)),
          types |-> Append(types, 0)]
    ELSE [times |-> times, types |-> types]

\* the dummy transition of a body with one time definition and no transition
with_dummy_transition(times, types, local_times) ==
    IF Len(times) = 0 /\ Len(local_times) = 1
    THEN [times |-> Append(times, Timespec_new(I64_MIN, 0)),
          types |-> Append(types, 0)]
    ELSE [times |-> times, types |-> types]

\* the ZoneInfoInner read_zone_info returns from its locals
zone_info_inner(b) ==
    LET tt == with_dummy_transition(b.transition_times, b.transition_types,
                                    b.local_times)
    IN  [header |-> b.header,
         transision_times |-> tt.times,
         transision_types |-> tt.types,
         local_times |-> b.local_times,
         leap_seconds_data |-> b.leap_seconds_data,
         transition_flags1 |-> b.transition_flags1,
         transition_flags2 |-> b.transition_flags2]

\* what is left of the file after the second body, as read_to_string takes it
read_to_string(buf, p) ==
    LET tail == SubSeq(buf, p + 1, Len(buf))
    IN  IF from_utf8_ok(tail) THEN Ok(tail, Len(buf)) ELSE Panic

----------------
(* The queries of a ZoneInfo.  A BTreeMap is the sequence of its entries   *)
(* [key, value] in ascending key order, one entry per key.                 *)

\* BTreeMap::insert: a key already present gets the new value
BTreeMap_insert(map, k, v) ==
    IF \E i \in 1..Len(map) : map[i].key = k
    THEN [i \in 1..Len(map) |-> IF map[i].key = k THEN [key |-> k, value |-> v]
                                                  ELSE map[i]]
    ELSE LET n == Cardinality({i \in 1..Len(map) : Timespec_lt(map[i].key, k)})
         IN  SubSeq(map, 1, n) \o <<[key |-> k, value |-> v]>>
             \o SubSeq(map, n + 1, Len(map))

\* the element of one (time, type_index) pair; each of the three index
\* expressions panics when the index is not below the length of its vector
zone_info_element(z, type_index) ==
    IF \/ type_index >= Len(z.local_times)
       \/ type_index >= Len(z.transition_flags1)
       \/ type_index >= Len(z.transition_flags2)
    THEN Panic
    ELSE Ok([ut_offset |-> z.local_times[type_index + 1].ut_offset,
             isdst |-> z.local_times[type_index + 1].isdst,
             abbreviation |-> z.local_times[type_index + 1].abbreviation,
             wall_clock_or_standard |-> z.transition_flags1[type_index + 1],
             local_or_universal_time |-> z.transition_flags2[type_index + 1]], 0)

\* the loop of get_transitions over transision_times zipped with
\* transision_types, from pair i on, inserting into map
RECURSIVE transitions_from(_, _, _)
transitions_from(z, i, map) ==
    IF i > Min(Len(z.transision_times), Len(z.transision_types))
    THEN [ok |-> TRUE, val |-> map]
    ELSE LET el == zone_info_element(z, z.transision_types[i])
         IN  IF ~el.ok THEN [ok |-> FALSE, err |-> "panic"]
             ELSE transitions_from(z, i + 1,
                      BTreeMap_insert(map, z.transision_times[i], el.val))

get_transitions(z) == transitions_from(z, 1, <<>>)

RECURSIVE leaps_from(_, _, _)
leaps_from(z, i, map) ==
    IF i > Len(z.leap_seconds_data) THEN map
    ELSE leaps_from(z, i + 1, BTreeMap_insert(map, z.leap_seconds_data[i][1],
                                              z.leap_seconds_data[i][2]))

get_leap_second_transitions(z) == [ok |-> TRUE, val |-> leaps_from(z, 1, <<>>)]

\* how many leading entries of the map have a key before the timestamp
leading_before(map, timestamp) ==
    Cardinality({n \in 1..Len(map) :
                    \A j \in 1..n : Timespec_lt(map[j].key, timestamp)})

None == [kind |-> "None"]
Panicked == [kind |-> "panic"]

\* get_actual_zoneinfo with the search of get_next_transition_time
get_actual_zoneinfo_next(z, timestamp) ==
    LET transitions == get_transitions(z) IN
    IF ~transitions.ok THEN Panicked
    ELSE LET n == Cardinality({m \in 1..Len(transitions.val) :
                        \A j \in 1..m : Timespec_lt(transitions.val[j].key, timestamp)})
         IN  IF n < Len(transitions.val)
             THEN [kind |-> "Some", val |-> transitions.val[n + 1].value,
                   from |-> transitions.val[n + 1].key]
             ELSE None

\* get_actual_zoneinfo with take_while(x <= timestamp)
get_actual_zoneinfo_le(z, timestamp) ==
    LET transitions == get_transitions(z) IN
    IF ~transitions.ok THEN Panicked
    ELSE LET n == Cardinality({m \in 1..Len(transitions.val) :
                        \A j \in 1..m : ~Timespec_lt(timestamp, transitions.val[j].key)})
         IN  IF n > 0
             THEN [kind |-> "Some", val |-> transitions.val[n].value,
                   from |-> transitions.val[n].key]
             ELSE None

\* take_while(x < timestamp).last(); `from` is the key of the entry whose
\* element is returned, which the caller does not get
get_actual_zoneinfo(z, timestamp) ==
    LET transitions == get_transitions(z) IN
    IF ~transitions.ok THEN Panicked
    ELSE LET n == leading_before(transitions.val, timestamp)
         IN  IF n > 0
             THEN [kind |-> "Some", val |-> transitions.val[n].value,
                   from |-> transitions.val[n].key]
             ELSE None

\* skip_while(x < timestamp).next()
get_next_transition_time(z, timestamp) ==
    LET transitions == get_transitions(z) IN
    IF ~transitions.ok THEN Panicked
    ELSE LET n == leading_before(transitions.val, timestamp)
         IN  IF n < Len(transitions.val)
             THEN [kind |-> "Some", val |-> <<transitions.val[n + 1].key,
                                              transitions.val[n + 1].value>>]
             ELSE None

\* str::trim on a tail of one-byte characters
is_whitespace(c) == c \in {9, 10, 11, 12, 13, 32}

trim(s) ==
    LET keep == {i \in 1..Len(s) : ~is_whitespace(s[i])}
    IN  IF keep = {} THEN <<>>
        ELSE SubSeq(s, CHOOSE i \in keep : \A j \in keep : i <= j,
                       CHOOSE i \in keep : \A j \in keep : i >= j)

get_dst_specifier(tail) == trim(tail)

----------------------------------------------------------------------------
(* The files the model loads: tzfile(5) images built field by field, in    *)
(* the layout the decoder reads, and cut short at every length.            *)

RECURSIVE Cat(_)
Cat(seqs) == IF seqs = <<>> THEN <<>> ELSE Head(seqs) \o Cat(Tail(seqs))

TZif == <<84, 90, 105, 102>>

\* "CET\0CEST\0"
Pool == <<67, 69, 84, 0, 67, 69, 83, 84, 0>>

\* the i-th local time type of an enumerated file: CET, CEST (dst), ...
LocalType(i) ==
    [ut_offset |-> IF i % 2 = 1 THEN 3600 * i ELSE -3600 * i,
     isdst |-> (i + 1) % 2,
     abbr_index |-> (4 * (i - 1)) % 9]

\* one header and its tables, with timestamps of the given width
Body(width, d) ==
    d.magic \o <<d.version>> \o Zeros(15)
    \o BE4(d.ttigmtcnt) \o BE4(d.ttisstdcnt) \o BE4(d.leapcnt)
    \o BE4(d.timecnt) \o BE4(d.typecnt) \o BE4(d.charcnt)
    \o Cat([i \in 1..Len(d.times) |->
              IF width = 4 THEN BE4(d.times[i]) ELSE I64FromI32(d.times[i])])
    \o d.types
    \o Cat([i \in 1..Len(d.ltts) |->
              BE4(d.ltts[i].ut_offset) \o <<d.ltts[i].isdst, d.ltts[i].abbr_index>>])
    \o d.pool
    \o Cat([i \in 1..Len(d.leaps) |->
              (IF width = 4 THEN BE4(d.leaps[i][1]) ELSE I64FromI32(d.leaps[i][1]))
              \o BE4(d.leaps[i][2])])
    \o d.std \o d.gmt

\* a well-formed description: the counts are the lengths of the tables
Tables(version, times, types, ntypes, leaps, nstd, ngmt) ==
    [magic |-> TZif, version |-> version,
     ttigmtcnt |-> ngmt, ttisstdcnt |-> nstd, leapcnt |-> Len(leaps),
     timecnt |-> Len(times), typecnt |-> ntypes, charcnt |-> Len(Pool),
     times |-> times, types |-> types,
     ltts |-> [i \in 1..ntypes |-> LocalType(i)], pool |-> Pool,
     leaps |-> leaps,
     std |-> [i \in 1..nstd |-> i % 2], gmt |-> [i \in 1..ngmt |-> (i + 1) % 2]]

\* instants of the transitions of the enumerated files
TimeVals == {-1, 0, 1000}

SeqsOf(S, n) == [1..n -> S]

\* every prefix of a file, the file included
Prefixes(f) == {SubSeq(f, 1, n) : n \in 0..Len(f)}

\* version-0 files of two types (CET and CEST) with a flag of each kind per
\* type, whose transitions are in any order and may repeat an instant
QueryFiles ==
    {Body(4, Tables(0, times, types, 2, <<>>, 2, 2)) :
        <<times, types>> \in UNION {SeqsOf(TimeVals, n) \X SeqsOf({0, 1}, n) :
                                        n \in 0..MaxTimeCnt}}

\* version-0 files with at most one transition, whose type index, type
\* count and flag counts vary independently
IndexFiles ==
    {Body(4, Tables(0, tt[1], tt[2], ntypes, <<>>, nstd, ngmt)) :
        tt \in {<<<<>>, <<>>>>} \cup {<<<<0>>, <<k>>>> : k \in 0..MaxTypeCnt},
        ntypes \in 0..MaxTypeCnt,
        nstd \in {0, 1, MaxTypeCnt}, ngmt \in {0, 1, MaxTypeCnt}}

\* counts {0,0,0,1,1,3}, a transition at 0 of type 0 {3600, not dst, "CET"}
ExampleFile ==
    Body(4, [Tables(0, <<0>>, <<0>>, 1, <<>>, 0, 0) EXCEPT
                !.charcnt = 3, !.pool = <<67, 69, 84, 0>>])

\* one transition, one type, one leap second, one flag of each kind
FullFile == Body(4, Tables(0, <<1000>>, <<0>>, 1, <<<<500, 1>>>>, 1, 1))

\* no transition, one type, no flags: nothing follows the pool
FixedFile == Body(4, Tables(0, <<>>, <<>>, 1, <<>>, 0, 0))

\* no transition, two types, no flags: a file whose queries need no flag
PlainFile == Body(4, Tables(0, <<>>, <<>>, 2, <<>>, 0, 0))

TruncatedFiles ==
    Prefixes(ExampleFile) \cup Prefixes(FullFile) \cup Prefixes(FixedFile)
    \cup Prefixes(PlainFile)

\* files whose first four bytes are not "TZif", whole and cut in the header
BadMagics == {<<88, 90, 105, 102>>, <<84, 90, 105, 70>>, <<255, 90, 105, 102>>,
              <<0, 0, 0, 0>>}

MagicFiles ==
    UNION {{f, SubSeq(f, 1, 30), SubSeq(f, 1, 3)} :
             f \in {Body(4, [Tables(0, <<1000>>, <<0>>, 1, <<<<500, 1>>>>, 1, 1)
                                EXCEPT !.magic = m]) : m \in BadMagics}}

\* an abbreviation that is not text
TextFiles ==
    {Body(4, [Tables(0, <<0>>, <<0>>, 1, <<>>, 1, 1) EXCEPT
                 !.pool = <<67, 255, 84, 0, 67, 69, 83, 84, 0>>])}

\* version 2 and 3 files: a 4-byte body, an 8-byte body with one more
\* transition, and a footer
Footers == {<<>>, <<10, 67, 69, 84, 45, 49, 10>>, <<32, 255>>}

WideFile(version, footer) ==
    Body(4, Tables(version, <<1000>>, <<0>>, 1, <<>>, 1, 1))
    \o Body(8, Tables(version, <<-1, 1000>>, <<0, 0>>, 1, <<>>, 1, 1))
    \o footer

WideFiles ==
    {WideFile(v, footer) : v \in {50, 51}, footer \in Footers}
    \cup Prefixes(WideFile(50, <<10, 67, 69, 84, 45, 49, 10>>))

\* a version 2 file of two bodies with no transition, two types and no
\* flags, so that nothing follows the pool of either body, cut at every
\* length, and whole with a footer
PlainWideFile ==
    Body(4, Tables(50, <<>>, <<>>, 2, <<>>, 0, 0))
    \o Body(8, Tables(50, <<>>, <<>>, 2, <<>>, 0, 0))

PlainWideFiles ==
    Prefixes(PlainWideFile) \cup {PlainWideFile \o <<32, 67, 69, 84, 9>>}

\* version-0 files of one type and no transition whose stored abbreviation
\* offset is inside, at the end of and past a pool that ends with a zero
\* byte ("CET\0") or does not ("CET")
AbbrPools == {<<67, 69, 84, 0>>, <<67, 69, 84>>}

AbbrFiles ==
    {Body(4, [Tables(0, <<>>, <<>>, 1, <<>>, 1, 1) EXCEPT
                 !.charcnt = Len(pool), !.pool = pool,
                 !.ltts = <<[ut_offset |-> 3600, isdst |-> 0, abbr_index |-> off]>>]) :
        pool \in AbbrPools, off \in 0..5}

Files ==
    QueryFiles \cup IndexFiles \cup TruncatedFiles \cup MagicFiles
    \cup TextFiles \cup WideFiles \cup PlainWideFiles \cup AbbrFiles

\* the timestamps the queries are made with
Timestamps ==
    {Timespec_new(I64_MIN, 0), Timespec_new(I64FromI32(-1), 0),
     Timespec_new(I64FromI32(0), 0), Timespec_new(I64FromI32(0), 1),
     Timespec_new(I64FromI32(500), 0), Timespec_new(I64FromI32(1000), 0)}

----------------------------------------------------------------------------------------------------------------------------------------
(* The state machine: ZoneInfo::new loads the file pass by pass, then the  *)
(* ZoneInfo is queried.                                                    *)

NoCall == [op |-> "none"]

NoHeader == [tzh_magic |-> <<>>]

NoBody ==
    [header |-> NoHeader, transition_times |-> <<>>, transition_types |-> <<>>,
     local_times |-> <<>>, leap_seconds_data |-> <<>>,
     transition_flags1 |-> <<>>, transition_flags2 |-> <<>>]

Init ==
    /\ \/ buffer = ExampleFile
       \/ buffer \in Files \ {ExampleFile}
    /\ ptr64 \in IF Len(buffer) >= 5 /\ buffer[5] \in {50, 51} THEN BOOLEAN ELSE {TRUE}
    /\ pc = "header"
    /\ consumer = 4
    /\ cursor = 0
    /\ body = NoBody
    /\ b32 = "none"
    /\ outcome = [kind |-> "none"]
    /\ zone_info = "none"
    /\ time_zone_specifier = "none"
    /\ call = NoCall
    /\ before = NoCall

\* a pass of read_zone_info: its result goes to a local and the next pass
\* follows, or try! returns the error (a panic unwinds) out of ZoneInfo::new
Pass(at, r, field, next) ==
    /\ pc = at
    /\ IF r.ok
       THEN /\ body' = [body EXCEPT ![field] = r.val]
            /\ cursor' = r.pos
            /\ pc' = next
            /\ UNCHANGED outcome
       ELSE /\ outcome' = [kind |-> IF r.err = "panic" THEN "panic" ELSE "Err",
                           at |-> at, width |-> consumer]
            /\ pc' = "done"
            /\ UNCHANGED <<body, cursor>>
    /\ UNCHANGED <<buffer, ptr64, consumer, b32, zone_info, time_zone_specifier,
                   call, before>>

ReadHeader ==
    Pass("header", TzHead_new(buffer, cursor), "header", "transition_times")

DecodeTransitionTimes ==
    Pass("transition_times",
         decode_transition_times(body.header, consumer, buffer, cursor),
         "transition_times", "transition_types")

DecodeTransitionTypes ==
    Pass("transition_types", decode_transition_types(body.header, buffer, cursor),
         "transition_types", "local_time_data")

DecodeLocalTimeData ==
    Pass("local_time_data", decode_local_time_data(body.header, buffer, cursor),
         "local_times", "leap_second_corrections")

DecodeLeapSecondCorrections ==
    Pass("leap_second_corrections",
         decode_leap_second_corrections(body.header, consumer, buffer, cursor),
         "leap_seconds_data", "transition_flags1")

DecodeTransitionFlags1 ==
    Pass("transition_flags1", decode_transition_flags1(body.header, buffer, cursor),
         "transition_flags1", "transition_flags2")

DecodeTransitionFlags2 ==
    Pass("transition_flags2", decode_transition_flags2(body.header, buffer, cursor),
         "transition_flags2", "return")

\* read_zone_info returns its ZoneInfoInner, and ZoneInfo::new goes on: to
\* the second body of a version 2 or 3 file, to the tail after that one, or
\* to the ZoneInfo of a file of another version
ReturnZoneInfoInner ==
    /\ pc = "return"
    /\ LET inner == zone_info_inner(body) IN
       IF consumer = 4 /\ (inner.header.tzh_version = 50 \/ inner.header.tzh_version = 51)
       THEN /\ b32' = inner
            /\ consumer' = 8
            /\ body' = NoBody
            /\ pc' = "header"
            /\ UNCHANGED <<outcome, zone_info, time_zone_specifier>>
       ELSE IF consumer = 8
       THEN /\ pc' = "tail"
            /\ UNCHANGED <<b32, consumer, body, outcome, zone_info,
                           time_zone_specifier>>
       ELSE /\ zone_info' = inner
            /\ time_zone_specifier' = <<>>
            /\ outcome' = [kind |-> "Ok"]
            /\ pc' = "done"
            /\ UNCHANGED <<b32, consumer, body>>
    /\ UNCHANGED <<buffer, ptr64, cursor, call, before>>

\* the body kept of a version 2 or 3 file, and the rest of the file as tail
ReadTail ==
    /\ pc = "tail"
    /\ LET tail == read_to_string(buffer, cursor) IN
       IF tail.ok
       THEN /\ zone_info' = IF ptr64 THEN zone_info_inner(body) ELSE b32
            /\ time_zone_specifier' = tail.val
            /\ outcome' = [kind |-> "Ok"]
            /\ cursor' = tail.pos
       ELSE /\ outcome' = [kind |-> "panic", at |-> "tail", width |-> consumer]
            /\ UNCHANGED <<zone_info, time_zone_specifier, cursor>>
    /\ pc' = "done"
    /\ UNCHANGED <<buffer, ptr64, consumer, body, b32, call, before>>

Called(c) ==
    /\ outcome.kind = "Ok"
    /\ before' = call
    /\ call' = c
    /\ UNCHANGED <<buffer, ptr64, pc, consumer, cursor, body, b32, outcome, zone_info,
                   time_zone_specifier>>

GetTransitions ==
    Called([op |-> "get_transitions",
            res |-> LET r == get_transitions(zone_info)
                    IN  IF r.ok THEN [kind |-> "Some", val |-> r.val] ELSE Panicked])

GetLeapSecondTransitions ==
    Called([op |-> "get_leap_second_transitions",
            res |-> [kind |-> "Some",
                     val |-> get_leap_second_transitions(zone_info).val]])

GetActualZoneinfo ==
    \E timestamp \in Timestamps :
        Called([op |-> "get_actual_zoneinfo", arg |-> timestamp,
                res |-> get_actual_zoneinfo(zone_info, timestamp)])

GetNextTransitionTime ==
    \E timestamp \in Timestamps :
        Called([op |-> "get_next_transition_time", arg |-> timestamp,
                res |-> get_next_transition_time(zone_info, timestamp)])

GetDstSpecifier ==
    Called([op |-> "get_dst_specifier",
            res |-> [kind |-> "Some", val |-> get_dst_specifier(time_zone_specifier)]])

Next ==
    \/ ReadHeader
    \/ DecodeTransitionTimes
    \/ DecodeTransitionTypes
    \/ DecodeLocalTimeData
    \/ DecodeLeapSecondCorrections
    \/ DecodeTransitionFlags1
    \/ DecodeTransitionFlags2
    \/ ReturnZoneInfoInner
    \/ ReadTail
    \/ GetTransitions
    \/ GetLeapSecondTransitions
    \/ GetActualZoneinfo
    \/ GetNextTransitionTime
    \/ GetDstSpecifier

Spec == Init /\ [][Next]_vars

----------------------------------------------------------------------------
(* What the properties below speak of.                                     *)

Loaded == outcome.kind = "Ok"

\* the instants of the transitions a loaded ZoneInfo stores
Instants(z) == {z.transision_times[i] : i \in 1..Len(z.transision_times)}

\* the greatest instant of a non-empty set, the least one
Greatest(S) == CHOOSE g \in S : \A x \in S : ~Timespec_lt(g, x)
Least(S) == CHOOSE g \in S : \A x \in S : ~Timespec_lt(x, g)

\* el carries the offset, dst flag and abbreviation of the local time type ty
SameType(el, ty) ==
    /\ el.ut_offset = ty.ut_offset
    /\ el.isdst = ty.isdst
    /\ el.abbreviation = ty.abbreviation

\* el is the record of a stored transition at instant T
RecordAt(z, T, el) ==
    \E i \in 1..Len(z.transision_times) :
        /\ z.transision_times[i] = T
        /\ i <= Len(z.transision_types)
        /\ z.transision_types[i] < Len(z.local_times)
        /\ SameType(el, z.local_times[z.transision_types[i] + 1])

\* every stored type index is within the three vectors get_transitions indexes
IndicesInRange(z) ==
    \A i \in 1..Len(z.transision_types) :
        /\ z.transision_types[i] < Len(z.local_times)
        /\ z.transision_types[i] < Len(z.transition_flags1)
        /\ z.transision_types[i] < Len(z.transition_flags2)

ActualCall(c) == c.op = "get_actual_zoneinfo"
NextCall(c) == c.op = "get_next_transition_time"

\* the second after an i64 second, in its bytes
I64_succ(b) ==
    LET low == {k \in 1..8 : b[k] < 255}
        i == IF low = {} THEN 0 ELSE CHOOSE k \in low : \A j \in low : j <= k
    IN  [k \in 1..8 |-> IF k < i THEN b[k] ELSE IF k = i THEN b[k] + 1 ELSE 0]

I64_MAX == <<127, 255, 255, 255, 255, 255, 255, 255>>

\* t is one second before T
SecondBefore(t, T) ==
    t.sec # I64_MAX /\ I64_succ(t.sec) = T.sec /\ t.nsec = T.nsec

----------------------------------------------------------------------------
(* C1: get_actual_zoneinfo(t) returns the record of the transition with    *)
(* the greatest instant strictly less than t, and None exactly when no     *)
(* transition instant is strictly less than t, for every loaded ZoneInfo.  *)

ActualIsPredecessor(z, t, res) ==
    LET earlier == {T \in Instants(z) : Timespec_lt(T, t)}
    IN  IF earlier = {} THEN res = None
        ELSE /\ res.kind = "Some"
             /\ res.from = Greatest(earlier)
             /\ RecordAt(z, Greatest(earlier), res.val)

C1_ActualIsPredecessor ==
    Loaded /\ ActualCall(call) => ActualIsPredecessor(zone_info, call.arg, call.res)

----------------------------------------------------------------------------
(* C2: get_next_transition_time(t) returns the (instant, record) pair of   *)
(* the earliest transition whose instant is >= t, and None exactly when    *)
(* no transition instant is >= t, for every loaded ZoneInfo.               *)

NextIsSuccessor(z, t, res) ==
    LET later == {T \in Instants(z) : ~Timespec_lt(T, t)}
    IN  IF later = {} THEN res = None
        ELSE /\ res.kind = "Some"
             /\ res.val[1] = Least(later)
             /\ ~Timespec_lt(res.val[1], t)
             /\ RecordAt(z, Least(later), res.val[2])

C2_NextIsSuccessor ==
    Loaded /\ NextCall(call) => NextIsSuccessor(zone_info, call.arg, call.res)

----------------------------------------------------------------------------
(* C3: at every transition instant T of a loaded ZoneInfo, the instant     *)
(* returned by get_next_transition_time(T-1) and the instant of the        *)
(* transition get_actual_zoneinfo(T) resolves are both T.                  *)

JustAfter(t, T) == t.sec = T.sec /\ t.nsec = T.nsec + 1

----------------------------------------------------------------------------
(* C4: a file whose header has transition count 0 and local time type      *)
(* count 1 loads to a ZoneInfo with exactly one transition, at i64::MIN    *)
(* and of type 0, and then every query (get_transitions,                   *)
(* get_actual_zoneinfo(t), get_next_transition_time(t), for every t)       *)
(* returns that type's offset, dst flag and abbreviation.                  *)

FixedZone ==
    /\ Loaded
    /\ zone_info.header.tzh_timecnt = 0
    /\ zone_info.header.tzh_typecnt = 1

OneDummyTransition(z) ==
    /\ z.transision_times = <<Timespec_new(I64_MIN, 0)>>
    /\ z.transision_types = <<0>>

----------------------------------------------------------------------------
(* C5: when the type index of a transition is at or beyond the length of   *)
(* the std/wall or of the UTC/local flag vector, get_transitions and the   *)
(* queries built on it still return the record, with the flag defaulted to *)
(* WallClock respectively Local, and do not fail; so the file with counts  *)
(* {0,0,0,1,1,3} and one transition at 0 of type 0 {3600, not dst, "CET"}  *)
(* answers get_actual_zoneinfo(500) with {3600, false, "CET"}.             *)

\* the element of a type index with the flags defaulted
DefaultedElement(z, type_index) ==
    [ut_offset |-> z.local_times[type_index + 1].ut_offset,
     isdst |-> z.local_times[type_index + 1].isdst,
     abbreviation |-> z.local_times[type_index + 1].abbreviation,
     wall_clock_or_standard |->
        IF type_index < Len(z.transition_flags1)
        THEN z.transition_flags1[type_index + 1] ELSE "WallClock",
     local_or_universal_time |->
        IF type_index < Len(z.transition_flags2)
        THEN z.transition_flags2[type_index + 1] ELSE "Local"]

TypesInRange(z) ==
    \A i \in 1..Len(z.transision_types) :
        z.transision_types[i] < Len(z.local_times)

DefaultedAt(z, T, el) ==
    \E i \in 1..Len(z.transision_times) :
        z.transision_times[i] = T /\ el = DefaultedElement(z, z.transision_types[i])

C5_FlagsDefaulted ==
    Loaded /\ TypesInRange(zone_info) =>
        /\ call.op = "get_transitions"
               => /\ call.res.kind = "Some"
                  /\ \A i \in 1..Len(call.res.val) :
                        DefaultedAt(zone_info, call.res.val[i].key, call.res.val[i].value)
        /\ ActualCall(call) /\ call.res # None
               => /\ call.res.kind = "Some"
                  /\ DefaultedAt(zone_info, call.res.from, call.res.val)
        /\ NextCall(call) /\ call.res # None
               => /\ call.res.kind = "Some"
                  /\ DefaultedAt(zone_info, call.res.val[1], call.res.val[2])
        /\ buffer = ExampleFile /\ ActualCall(call)
                /\ call.arg = Timespec_new(I64FromI32(500), 0)
               => /\ call.res.kind = "Some"
                  /\ call.res.val.ut_offset = 3600
                  /\ call.res.val.isdst = FALSE
                  /\ call.res.val.abbreviation = <<67, 69, 84>>

----------------------------------------------------------------------------
(* C6: loading a file whose first 4 bytes are not "TZif" (4 bytes that are *)
(* not UTF-8 text included) ends with an error value: it neither panics    *)
(* nor returns a ZoneInfo.                                                 *)

MagicOf(buf) == SubSeq(buf, 1, Min(4, Len(buf)))

C6_BadMagicIsError ==
    pc = "done" /\ MagicOf(buffer) # TZif => outcome.kind = "Err"

----------------------------------------------------------------------------
(* C7: if the file ends before all the bytes its header's counts require,  *)
(* in the header or in any of the six passes, the load returns an error    *)
(* and never a ZoneInfo built from a short read.                           *)

\* the bytes of a header and of the tables its counts declare
BodySize(h, w) ==
    44 + h.tzh_timecnt * w + h.tzh_timecnt + h.tzh_typecnt * 6 + h.tzh_charcnt
    + h.tzh_leapcnt * (w + 4) + h.tzh_ttisstdcnt + h.tzh_ttigmtcnt

\* the bytes the body being read needs, from where it starts
NeededBytes ==
    (IF consumer = 8 THEN BodySize(b32.header, 4) ELSE 0)
    + (IF body.header = NoHeader THEN 44 ELSE BodySize(body.header, consumer))

C7_ShortFileIsError ==
    pc = "done" /\ Len(buffer) < NeededBytes => outcome.kind = "Err"

----------------------------------------------------------------------------
(* C8: in every ZoneInfo a load returns, every stored transition type      *)
(* index is below the header's local time type count (the number of        *)
(* decoded local time types), so get_transitions never indexes local_times *)
(* out of range.                                                           *)

C8_TypeIndicesValid ==
    Loaded =>
        /\ Len(zone_info.local_times) = zone_info.header.tzh_typecnt
        /\ \A i \in 1..Len(zone_info.transision_types) :
              zone_info.transision_types[i] < zone_info.header.tzh_typecnt

----------------------------------------------------------------------------
(* C9: in every ZoneInfo a load returns, the transition times and the      *)
(* transition type indices have the same length, which is the header's     *)
(* transition count, except that both lengths are 1 when the header has    *)
(* transition count 0 and local time type count 1.                         *)

C9_TransitionLengths ==
    Loaded =>
        /\ Len(zone_info.transision_times) = Len(zone_info.transision_types)
        /\ Len(zone_info.transision_times) =
              IF zone_info.header.tzh_timecnt = 0 /\ zone_info.header.tzh_typecnt = 1
              THEN 1 ELSE zone_info.header.tzh_timecnt

\* a file with no transition and one type has loaded, with its dummy pair
C9_Witness ==
    /\ FixedZone
    /\ Len(zone_info.transision_times) = 1
    /\ Len(zone_info.transision_types) = 1

----------------------------------------------------------------------------
(* C10: get_actual_zoneinfo is monotonic: for t1 < t2, if                  *)
(* get_actual_zoneinfo(t1) is present then get_actual_zoneinfo(t2) is      *)
(* present and resolves a transition whose instant is not before the one   *)
(* resolved for t1.                                                        *)

Monotonic(c1, c2) ==
    ActualCall(c1) /\ ActualCall(c2) /\ Timespec_lt(c1.arg, c2.arg)
        /\ c1.res.kind = "Some"
    => /\ c2.res.kind = "Some"
       /\ ~Timespec_lt(c2.res.from, c1.res.from)

C10_ActualMonotonic ==
    Loaded => Monotonic(before, call) /\ Monotonic(call, before)

\* two calls with t1 < t2 have resolved two different transitions
C10_Witness ==
    /\ Loaded
    /\ ActualCall(before) /\ ActualCall(call)
    /\ Timespec_lt(before.arg, call.arg)
    /\ before.res.kind = "Some" /\ call.res.kind = "Some"
    /\ Timespec_lt(before.res.from, call.res.from)

----------------------------------------------------------------------------
(* C11: every load that returns a ZoneInfo from a file whose first header  *)
(* has version '2' or '3' has read it as three consecutive parts: a        *)
(* complete body with 4-byte timestamps from offset 0, a complete body     *)
(* with 8-byte timestamps from the byte after the first body's last table, *)
(* both within the file, and the rest of the file as the footer; the       *)
(* ZoneInfo keeps the tables of the 8-byte body when pointers are 64 bits  *)
(* wide and of the 4-byte body otherwise, and get_dst_specifier returns    *)
(* the footer without the whitespace around it.  Of a version-0 file one   *)
(* body is read and get_dst_specifier returns the empty string.            *)

\* the version byte of the first header
FirstVersion == IF Len(buffer) >= 5 THEN buffer[5] ELSE -1

WideVersion == FirstVersion \in {50, 51}

\* where the parts begin, by the counts of the two headers
SecondStart == BodySize(b32.header, 4)
FooterStart == SecondStart + BodySize(body.header, 8)
Footer == SubSeq(buffer, FooterStart + 1, Len(buffer))

\* the i-th timestamp of the body that starts at a position, as an i64
TimeAt(start, w, i) ==
    LET at == start + 44 + w * (i - 1)
    IN  IF w = 8 THEN SubSeq(buffer, at + 1, at + 8)
        ELSE I64FromI32(I32(SubSeq(buffer, at + 1, at + 4)))

\* z holds the header and the transition times of the body of width w that
\* starts at a position of the file
TablesOf(z, start, w) ==
    /\ start + 44 <= Len(buffer)
    /\ z.header.tzh_version = buffer[start + 5]
    /\ z.header.tzh_timecnt = U32(SubSeq(buffer, start + 33, start + 36))
    /\ z.header.tzh_typecnt = U32(SubSeq(buffer, start + 37, start + 40))
    /\ Len(z.local_times) = z.header.tzh_typecnt
    /\ Len(z.transision_times) >= z.header.tzh_timecnt
    /\ \A i \in 1..z.header.tzh_timecnt :
          z.transision_times[i] = Timespec_new(TimeAt(start, w, i), 0)

\* s is t without the whitespace at its two ends
Trimmed(s, t) ==
    /\ \E a \in 0..Len(t) : \E b \in 0..(Len(t) - a) :
          /\ s = SubSeq(t, a + 1, Len(t) - b)
          /\ \A i \in 1..a : is_whitespace(t[i])
          /\ \A i \in (Len(t) - b + 1)..Len(t) : is_whitespace(t[i])
    /\ s # <<>> => ~is_whitespace(s[1]) /\ ~is_whitespace(s[Len(s)])

DstSpecifierCall == call.op = "get_dst_specifier"

C11_ThreeParts ==
    /\ Loaded /\ WideVersion =>
          /\ consumer = 8
          /\ FooterStart <= Len(buffer)
          /\ time_zone_specifier = Footer
          /\ IF ptr64 THEN TablesOf(zone_info, SecondStart, 8)
             ELSE TablesOf(zone_info, 0, 4)
          /\ DstSpecifierCall => Trimmed(call.res.val, Footer)
    /\ Loaded /\ FirstVersion = 0 =>
          /\ consumer = 4
          /\ TablesOf(zone_info, 0, 4)
          /\ time_zone_specifier = <<>>
          /\ DstSpecifierCall => call.res.val = <<>>

----------------------------------------------------------------------------
(* C12: in every ZoneInfo a load returns, the abbreviation of every local  *)
(* time type is the bytes of the abbreviation pool (tzh_charcnt bytes of   *)
(* the file) from the record's stored offset up to, not including, the     *)
(* next zero byte, and that zero byte is inside the pool: no record loads  *)
(* whose stored offset is at or past the end of the pool, or whose bytes   *)
(* run to the end of the pool without a zero byte.                         *)

\* the body whose tables the ZoneInfo keeps: where it starts, and the width
\* of its timestamps
KeptWide == consumer = 8 /\ ptr64
KeptStart == IF KeptWide THEN SecondStart ELSE 0
KeptWidth == IF KeptWide THEN 8 ELSE 4

\* where the local time type records and the pool of the kept body start
RecordsStart ==
    KeptStart + 44 + zone_info.header.tzh_timecnt * (KeptWidth + 1)
PoolStart == RecordsStart + 6 * zone_info.header.tzh_typecnt

\* the offset byte of the i-th record, and the j-th byte of the pool
StoredOffset(i) == buffer[RecordsStart + 6 * i]
InFile(j) == PoolStart + j <= Len(buffer)
PoolByte(j) == buffer[PoolStart + j]

\* abbr is the bytes from the offset up to a zero byte inside the pool
TerminatedAt(abbr, off) ==
    \E z \in (off + 1)..zone_info.header.tzh_charcnt :
        /\ InFile(z) /\ PoolByte(z) = 0
        /\ \A m \in (off + 1)..(z - 1) : PoolByte(m) # 0
        /\ abbr = [m \in 1..(z - 1 - off) |-> PoolByte(off + m)]

C12_AbbreviationTerminated ==
    Loaded =>
        \A i \in 1..Len(zone_info.local_times) :
            TerminatedAt(zone_info.local_times[i].abbreviation, StoredOffset(i))

====
